---------------------------- MODULE Spec2Model ----------------------------
(***************************************************************************)
(* A model of gdata_service.py: the GDataService credential and session    *)
(* state (auth token, auth type, captcha challenge, gsessionid), the       *)
(* authentication operations (the auth_token setter, ProgrammaticLogin,    *)
(* UpgradeToSessionToken, RevokeAuthSubToken) and the CRUD operations      *)
(* (Get, Post, Put, Delete) with their redirect handling.                  *)
(*                                                                         *)
(* Python strings are sequences of one-character strings, so that          *)
(* startswith, lstrip, splitlines, find and the gsessionid pattern are     *)
(* computed character by character as the interpreter computes them.       *)
(* The servers are the environment: every response is chosen with \E.      *)
(***************************************************************************)
EXTENDS Naturals, Integers, Sequences, FiniteSets, TLC

(***************************************************************************)
(* Bounds of the model.                                                    *)
(***************************************************************************)
\* Longest token the caller or a server supplies (in characters).
MaxTokenLen == 1

\* Largest redirects_remaining a caller passes explicitly.
MaxRedirects == 1

\* Most items a caller puts into a Query, and most categories.
MaxParams == 2
MaxCategories == 2

(***************************************************************************)
(* Values and string helpers.                                              *)
(***************************************************************************)
\* Python's None.  No string has a several-character element, so None is
\* different from every string, the empty string included.
None == <<"None">>

\* str(v) as the % operator formats a value with %s.
Str(v) == IF v = None THEN <<"N", "o", "n", "e">> ELSE v

NL == "\n"

PROGRAMMATIC_AUTH_LABEL ==
  <<"G", "o", "o", "g", "l", "e", "L", "o", "g", "i", "n", " ", "a", "u", "t", "h">>

AUTHSUB_AUTH_LABEL ==
  <<"A", "u", "t", "h", "S", "u", "b", " ", "t", "o", "k", "e", "n">>

AuthPrefix == <<"A", "u", "t", "h", "=">>
ErrorPrefix == <<"E", "r", "r", "o", "r", "=">>
CaptchaTokenPrefix ==
  <<"C", "a", "p", "t", "c", "h", "a", "T", "o", "k", "e", "n", "=">>
CaptchaUrlPrefix == <<"C", "a", "p", "t", "c", "h", "a", "U", "r", "l", "=">>
TokenPrefix == <<"T", "o", "k", "e", "n", "=">>

ErrorCaptchaRequired ==
  ErrorPrefix \o <<"C", "a", "p", "t", "c", "h", "a",
                   "R", "e", "q", "u", "i", "r", "e", "d">>
ErrorBadAuthentication ==
  ErrorPrefix \o <<"B", "a", "d", "A", "u", "t", "h", "e", "n", "t", "i", "c",
                   "a", "t", "i", "o", "n">>

\* 'https://www.google.com/accounts/Captcha%s' without the %s
CaptchaUrlBase ==
  <<"h", "t", "t", "p", "s", ":", "/", "/", "w", "w", "w", ".", "g", "o", "o",
    "g", "l", "e", ".", "c", "o", "m", "/", "a", "c", "c", "o", "u", "n", "t",
    "s", "/", "C", "a", "p", "t", "c", "h", "a">>

\* The characters of a string, as a set.
Chars(s) == {s[i] : i \in 1..Len(s)}

\* str.startswith(prefix)
startswith(s, prefix) ==
  /\ Len(s) >= Len(prefix)
  /\ SubSeq(s, 1, Len(prefix)) = prefix

\* str.lstrip(arg): removes every leading character that occurs in arg
\* (arg is a set of characters to remove, not a prefix).
RECURSIVE lstrip(_, _)
lstrip(s, arg) ==
  IF s /= <<>> /\ Head(s) \in Chars(arg) THEN lstrip(Tail(s), arg) ELSE s

\* str.splitlines(): the lines of a body, without their line ends.
RECURSIVE splitlines(_)
splitlines(body) ==
  IF body = <<>> THEN <<>>
  ELSE LET nl == {i \in 1..Len(body) : body[i] = NL}
       IN IF nl = {} THEN <<body>>
          ELSE LET k == CHOOSE i \in nl : \A j \in nl : i <= j
               IN <<SubSeq(body, 1, k - 1)>> \o
                  splitlines(SubSeq(body, k + 1, Len(body)))

ClientLoginPath ==
  <<"/", "a", "c", "c", "o", "u", "n", "t", "s", "/", "C", "l", "i", "e",
    "n", "t", "L", "o", "g", "i", "n">>
AuthSubSessionTokenPath ==
  <<"/", "a", "c", "c", "o", "u", "n", "t", "s", "/", "A", "u", "t", "h",
    "S", "u", "b", "S", "e", "s", "s", "i", "o", "n", "T", "o", "k", "e",
    "n">>
AuthSubRevokeTokenPath ==
  <<"/", "a", "c", "c", "o", "u", "n", "t", "s", "/", "A", "u", "t", "h",
    "S", "u", "b", "R", "e", "v", "o", "k", "e", "T", "o", "k", "e", "n">>

\* A dict of HTTP headers: a function from header names to strings.
EmptyDict == [h \in {} |-> <<>>]

\* d[k] = v on a dict
SetItem(d, k, v) == [h \in (DOMAIN d) \cup {k} |-> IF h = k THEN v ELSE d[h]]

\* Python's truth value of a string or None: None and '' are false.
Truthy(v) == v /= None /\ v /= <<>>

\* '%s=%s' % (auth_type, auth_token)
AuthorizationValue(type, token) == Str(type) \o <<"=">> \o Str(token)

(***************************************************************************)
(* The state of one GDataService instance and of its caller.               *)
(***************************************************************************)
VARIABLES
  auth_token,     \* self.__auth_token: a string or None
  auth_type,      \* self.__auth_type: one of the two labels or None
  captcha_token,  \* self.__captcha_token: a string or None
  captcha_url,    \* self.__captcha_url: a string or None
  gsessionid,     \* self.__gsessionid: a string or None
  caller_headers, \* a dict the caller keeps and may pass as extra_headers
  call,           \* <<>>, or the recursive CRUD call about to start
  last,           \* the most recent call: what was sent, answered and raised
  query,          \* a Query object: its feed, its categories, its items
  answer,         \* the most recent operation on the Query and its value
  threads         \* two threads on one instance: where each of them is

svars == <<auth_token, auth_type, captcha_token, captcha_url, gsessionid>>
gvars == <<auth_token, auth_type, captcha_token, captcha_url, gsessionid,
           caller_headers, call, last, threads>>
qvars == <<query, answer>>
vars == <<auth_token, auth_type, captcha_token, captcha_url, gsessionid,
          caller_headers, call, last, query, answer, threads>>

\* The instance's fields as one record, the argument `self` of the methods.
Self ==
  [auth_token |-> auth_token, auth_type |-> auth_type,
   captcha_token |-> captcha_token, captcha_url |-> captcha_url,
   gsessionid |-> gsessionid]

\* GDataService.__init__
NewService ==
  [auth_token |-> None, auth_type |-> None, captcha_token |-> None,
   captcha_url |-> None, gsessionid |-> None]

(***************************************************************************)
(* The auth_token property.                                                *)
(***************************************************************************)
\* _SetAuthSubToken: stores the token and marks it as an AuthSub token.
SetAuthSubToken(self, token) ==
  [self EXCEPT !.auth_token = token, !.auth_type = AUTHSUB_AUTH_LABEL]

\* _GetAuthToken
GetAuthToken(self) == self.auth_token

\* _GetCaptchaToken
GetCaptchaToken(self) == self.captcha_token

\* _GetCaptchaURL
GetCaptchaURL(self) == self.captcha_url

(***************************************************************************)
(* ProgrammaticLogin.  The request is a POST of the credentials to         *)
(* /accounts/ClientLogin; the response (status, body) is the server's.     *)
(* Each operator gives the instance after the step and what was raised     *)
(* ("return" when the method returns normally).                            *)
(***************************************************************************)
\* Status 200: the loop over the body's lines; every Auth= line stores the
\* token and clears the captcha fields.
RECURSIVE LoginScan200(_, _)
LoginScan200(self, lines) ==
  IF lines = <<>> THEN self
  ELSE LET response_line == Head(lines)
           next == IF startswith(response_line, AuthPrefix)
                   THEN [self EXCEPT
                           !.auth_token = lstrip(response_line, AuthPrefix),
                           !.auth_type = PROGRAMMATIC_AUTH_LABEL,
                           !.captcha_token = None,
                           !.captcha_url = None]
                   ELSE self
       IN LoginScan200(next, Tail(lines))

\* The local variable error_line before any assignment to it.
Unbound == <<"Unbound">>

\* Status 403: the loop over the body's lines, which finds the error line
\* and stores the captcha token and URL.  acc = [self, error_line].
RECURSIVE LoginScan403(_, _)
LoginScan403(acc, lines) ==
  IF lines = <<>> THEN acc
  ELSE LET response_line == Head(lines)
           next ==
             IF startswith(response_line, ErrorPrefix)
             THEN [acc EXCEPT !.error_line = response_line]
             ELSE IF startswith(response_line, CaptchaTokenPrefix)
             THEN [acc EXCEPT !.self.captcha_token =
                                 lstrip(response_line, CaptchaTokenPrefix)]
             ELSE IF startswith(response_line, CaptchaUrlPrefix)
             THEN [acc EXCEPT !.self.captcha_url =
                     CaptchaUrlBase \o lstrip(response_line, CaptchaUrlPrefix)]
             ELSE acc
       IN LoginScan403(next, Tail(lines))

\* A mutant of LoginRaise403: BadAuthentication keeps the captcha fields.
LoginRaise403_keep(self, error_line) ==
  IF error_line = Unbound
  THEN [self |-> self, raised |-> "UnboundLocalError"]
  ELSE IF error_line = ErrorCaptchaRequired
  THEN [self |-> self, raised |-> "CaptchaRequired"]
  ELSE IF error_line = ErrorBadAuthentication
  THEN [self |-> self, raised |-> "BadAuthentication"]
  ELSE [self |-> [self EXCEPT !.captcha_token = None, !.captcha_url = None],
        raised |-> "Error"]

\* A mutant of LoginRaise403: a refused login also forgets the token.
LoginRaise403_forget(self, error_line) ==
  IF error_line = Unbound
  THEN [self |-> self, raised |-> "UnboundLocalError"]
  ELSE IF error_line = ErrorCaptchaRequired
  THEN [self |-> [self EXCEPT !.auth_token = None], raised |-> "CaptchaRequired"]
  ELSE IF error_line = ErrorBadAuthentication
  THEN [self |-> [self EXCEPT !.auth_token = None, !.captcha_token = None,
                              !.captcha_url = None],
        raised |-> "BadAuthentication"]
  ELSE [self |-> [self EXCEPT !.auth_token = None, !.captcha_token = None,
                              !.captcha_url = None],
        raised |-> "Error"]

\* Status 403: the exception raised for the error line.  Reading error_line
\* when no line started with Error= raises UnboundLocalError, before either
\* branch that clears the captcha fields.
LoginRaise403(self, error_line) ==
  IF error_line = Unbound
  THEN [self |-> self, raised |-> "UnboundLocalError"]
  ELSE IF error_line = ErrorCaptchaRequired
  THEN [self |-> self, raised |-> "CaptchaRequired"]
  ELSE IF error_line = ErrorBadAuthentication
  THEN [self |-> [self EXCEPT !.captcha_token = None, !.captcha_url = None],
        raised |-> "BadAuthentication"]
  ELSE [self |-> [self EXCEPT !.captcha_token = None, !.captcha_url = None],
        raised |-> "Error"]

\* ProgrammaticLogin, from the response on.  A status other than 200 and
\* 403 matches neither branch: the method returns with nothing changed.
ProgrammaticLogin(self, status, body) ==
  IF status = 200
  THEN [self |-> LoginScan200(self, splitlines(body)), raised |-> "return"]
  ELSE IF status = 403
  THEN LET acc == LoginScan403([self |-> self, error_line |-> Unbound],
                               splitlines(body))
       IN LoginRaise403(acc.self, acc.error_line)
  ELSE [self |-> self, raised |-> "return"]

(***************************************************************************)
(* UpgradeToSessionToken and RevokeAuthSubToken.                           *)
(***************************************************************************)
\* A mutant of UpgradeGuard: refuses only when there is no token at all.
UpgradeGuard_anytoken(self) == self.auth_token = None

\* UpgradeToSessionToken raises NonAuthSubToken, before it opens the
\* connection, when this holds.
UpgradeGuard(self) == self.auth_type /= AUTHSUB_AUTH_LABEL

\* RevokeAuthSubToken raises NonAuthSubToken, before it opens the
\* connection, when this holds.
RevokeGuard(self) == self.auth_type /= AUTHSUB_AUTH_LABEL

\* The Authorization header of the upgrade and of the revoke request.
AuthSubRequest(self, path) ==
  [method |-> "GET", uri |-> path,
   headers |-> SetItem(EmptyDict, "Authorization",
                       AuthorizationValue(self.auth_type, self.auth_token))]

\* Status 200 of the upgrade: every Token= line replaces the token.
RECURSIVE UpgradeScan(_, _)
UpgradeScan(self, lines) ==
  IF lines = <<>> THEN self
  ELSE LET response_line == Head(lines)
           next == IF startswith(response_line, TokenPrefix)
                   THEN [self EXCEPT
                           !.auth_token = lstrip(response_line, TokenPrefix)]
                   ELSE self
       IN UpgradeScan(next, Tail(lines))

\* UpgradeToSessionToken, from the response on: no status raises.
UpgradeToSessionToken(self, status, body) ==
  IF status = 200
  THEN [self |-> UpgradeScan(self, splitlines(body)), raised |-> "return"]
  ELSE [self |-> self, raised |-> "return"]

\* A mutant of RevokeAuthSubToken: forgets the token on every response and
\* keeps the type.
RevokeAuthSubToken_always(self, status) ==
  [self |-> [self EXCEPT !.auth_token = None], raised |-> "return"]

\* A mutant of RevokeAuthSubToken: status 200 forgets the type and keeps
\* the token.
RevokeAuthSubToken_typeonly(self, status) ==
  IF status = 200
  THEN [self |-> [self EXCEPT !.auth_type = None], raised |-> "return"]
  ELSE [self |-> self, raised |-> "return"]

\* RevokeAuthSubToken, from the response on: the body is not read.
RevokeAuthSubToken(self, status) ==
  IF status = 200
  THEN [self |-> [self EXCEPT !.auth_type = None, !.auth_token = None],
        raised |-> "return"]
  ELSE [self |-> self, raised |-> "return"]

(***************************************************************************)
(* The CRUD operations.  One activation of Get, Post, Put or Delete runs   *)
(* from the method's entry to its return, its raise, or its recursive call *)
(* for a redirect; the recursive call is the next activation.  The         *)
(* transport (app_service.AtomService) and the XML parsers are external:   *)
(* the transport's answer is the server's response, and a body parses as   *)
(* a feed, as an entry, or as neither.  The arguments data, url_params and *)
(* escape_params are handed to the transport unread.                       *)
(***************************************************************************)
GsessionidEq ==
  <<"g", "s", "e", "s", "s", "i", "o", "n", "i", "d", "=">>

\* The characters \w matches, for the strings of this model (ASCII).
WordChars ==
  {"a", "b", "c", "d", "e", "f", "g", "h", "i", "j", "k", "l", "m", "n",
   "o", "p", "q", "r", "s", "t", "u", "v", "w", "x", "y", "z",
   "A", "B", "C", "D", "E", "F", "G", "H", "I", "J", "K", "L", "M", "N",
   "O", "P", "Q", "R", "S", "T", "U", "V", "W", "X", "Y", "Z",
   "0", "1", "2", "3", "4", "5", "6", "7", "8", "9", "_"}

\* str.find(sub): the index (from 0) of the first occurrence, or -1.
find(s, sub) ==
  LET hits == {i \in 1..(Len(s) - Len(sub) + 1) :
                 SubSeq(s, i, i + Len(sub) - 1) = sub}
  IN IF hits = {} THEN -1
     ELSE (CHOOSE i \in hits : \A j \in hits : i <= j) - 1

\* The longest prefix of s made of \w characters: what (\w*) captures.
RECURSIVE WordPrefix(_)
WordPrefix(s) ==
  IF s /= <<>> /\ Head(s) \in WordChars
  THEN <<Head(s)>> \o WordPrefix(Tail(s))
  ELSE <<>>

\* re.compile('[\?\&]gsessionid=(\w*)').search(location): group 1 of the
\* leftmost match, or None when nothing matches.
GsessionidSearch(location) ==
  LET n == Len(GsessionidEq)
      hits == {i \in 1..(Len(location) - n) :
                 /\ location[i] \in {"?", "&"}
                 /\ SubSeq(location, i + 1, i + n) = GsessionidEq}
  IN IF hits = {} THEN None
     ELSE LET i == CHOOSE h \in hits : \A j \in hits : h <= j
          IN WordPrefix(SubSeq(location, i + n + 1, Len(location)))

\* The Authorization header is added to extra_headers when the token is
\* true (neither None nor empty); otherwise the dict is left as it came.
AddAuthorization(self, extra_headers) ==
  IF Truthy(self.auth_token)
  THEN SetItem(extra_headers, "Authorization",
               AuthorizationValue(self.auth_type, self.auth_token))
  ELSE extra_headers

\* A mutant of AddSessionId: the URI is never touched.
AddSessionId_never(self, uri) == uri

\* The session id is appended to the URI unless the URI already holds the
\* text gsessionid=.
AddSessionId(self, uri) ==
  IF self.gsessionid /= None
  THEN IF find(uri, GsessionidEq) < 0
       THEN IF find(uri, <<"?">>) > -1
            THEN uri \o <<"&">> \o GsessionidEq \o Str(self.gsessionid)
            ELSE uri \o <<"?">> \o GsessionidEq \o Str(self.gsessionid)
       ELSE uri
  ELSE uri

\* Documents the external parsers accept.
FeedXml == <<"<", "f", ">">>
EntryXml == <<"<", "e", ">">>

\* What a parser gives for a body it cannot parse, and what an operation
\* gives when it raises: no object.
NoResult == [type |-> "None", xml |-> <<>>]

\* gdata.GDataFeedFromString: a feed, or nothing for a body that is no feed.
GDataFeedFromString(body) ==
  IF body = FeedXml THEN [type |-> "Feed", xml |-> body] ELSE NoResult

\* atom.EntryFromString: an entry, or nothing for a body that is no entry.
EntryFromString(body) ==
  IF body = EntryXml THEN [type |-> "Entry", xml |-> body] ELSE NoResult

\* The success branch of Get, Post and Put: feed, else entry, else the body.
ParseResult(result_body) ==
  LET feed == GDataFeedFromString(result_body)
      entry == EntryFromString(result_body)
  IN IF feed = NoResult
     THEN IF entry = NoResult THEN [type |-> "str", xml |-> result_body]
          ELSE entry
     ELSE feed

TrueResult == [type |-> "bool", xml |-> <<"T", "r", "u", "e">>]
NoCall == [uri |-> <<>>, redirects_remaining |-> 0]

\* A mutant of Redirect: a redirect is followed while redirects_remaining
\* is not negative.
Redirect_offbyone(self, response, redirects_remaining) ==
  IF response.status = 302 /\ redirects_remaining >= 0
     /\ response.location /= None
  THEN LET m == GsessionidSearch(response.location)
       IN [self |-> IF m /= None THEN [self EXCEPT !.gsessionid = m]
                    ELSE self,
           ends |-> "recurse",
           call |-> [uri |-> response.location,
                     redirects_remaining |-> redirects_remaining - 1],
           error |-> <<>>]
  ELSE [self |-> self, ends |-> "raise", call |-> NoCall,
        error |-> <<[status |-> response.status,
                     reason |-> response.reason,
                     body |-> response.body]>>]

\* A mutant of Redirect: a 302 without a Location header is followed to
\* the empty URI.
Redirect_nolocation(self, response, redirects_remaining) ==
  IF response.status = 302 /\ redirects_remaining > 0
  THEN LET m == IF response.location /= None
                THEN GsessionidSearch(response.location) ELSE None
       IN [self |-> IF m /= None THEN [self EXCEPT !.gsessionid = m]
                    ELSE self,
           ends |-> "recurse",
           call |-> [uri |-> IF response.location /= None
                             THEN response.location ELSE <<>>,
                     redirects_remaining |-> redirects_remaining - 1],
           error |-> <<>>]
  ELSE [self |-> self, ends |-> "raise", call |-> NoCall,
        error |-> <<[status |-> response.status,
                     reason |-> response.reason,
                     body |-> response.body]>>]

\* A mutant of Redirect: the session id becomes what the search gives, None
\* included.
Redirect_forget(self, response, redirects_remaining) ==
  IF response.status = 302 /\ redirects_remaining > 0
     /\ response.location /= None
  THEN [self |-> [self EXCEPT !.gsessionid = GsessionidSearch(response.location)],
        ends |-> "recurse",
        call |-> [uri |-> response.location,
                  redirects_remaining |-> redirects_remaining - 1],
        error |-> <<>>]
  ELSE [self |-> self, ends |-> "raise", call |-> NoCall,
        error |-> <<[status |-> response.status,
                     reason |-> response.reason,
                     body |-> response.body]>>]

\* The branches every method takes on a status that is not its success
\* status.  The result names what the activation ends with: "raise" with
\* the RequestError payload, or "recurse" with the arguments of the
\* recursive call.
Redirect(self, response, redirects_remaining) ==
  IF response.status = 302
  THEN IF redirects_remaining > 0
       THEN IF response.location /= None
            THEN LET m == GsessionidSearch(response.location)
                 IN [self |-> IF m /= None
                              THEN [self EXCEPT !.gsessionid = m]
                              ELSE self,
                     ends |-> "recurse",
                     call |-> [uri |-> response.location,
                               redirects_remaining |-> redirects_remaining - 1],
                     error |-> <<>>]
            ELSE [self |-> self, ends |-> "raise", call |-> NoCall,
                  error |-> <<[status |-> response.status,
                               reason |-> "302 received without Location header",
                               body |-> response.body]>>]
       ELSE [self |-> self, ends |-> "raise", call |-> NoCall,
             error |-> <<[status |-> response.status,
                          reason |-> "Redirect received, but redirects_remaining <= 0",
                          body |-> response.body]>>]
  ELSE [self |-> self, ends |-> "raise", call |-> NoCall,
        error |-> <<[status |-> response.status,
                     reason |-> response.reason,
                     body |-> response.body]>>]

\* One activation of a method: the request it hands to the transport, with
\* the dict extra_headers as the method leaves it, and how it ends for the
\* server's response.
Activation(method, success, self, uri, extra_headers, redirects_remaining, response) ==
  LET headers == AddAuthorization(self, extra_headers)
      request == [method |-> method, uri |-> AddSessionId(self, uri),
                  headers |-> headers]
      r == Redirect(self, response, redirects_remaining)
  IN IF response.status = success
     THEN [self |-> self, request |-> request, extra_headers |-> headers,
           ends |-> "return",
           result |-> IF method = "DELETE" THEN TrueResult
                      ELSE ParseResult(response.body),
           call |-> NoCall, error |-> <<>>]
     ELSE [self |-> r.self, request |-> request, extra_headers |-> headers,
           ends |-> r.ends, result |-> NoResult, call |-> r.call,
           error |-> r.error]

Get(self, uri, extra_headers, redirects_remaining, response) ==
  Activation("GET", 200, self, uri, extra_headers, redirects_remaining, response)

\* A mutant of Post: 200 is taken as success.
Post_ok200(self, uri, extra_headers, redirects_remaining, response) ==
  Activation("POST", 200, self, uri, extra_headers, redirects_remaining, response)

Post(self, uri, extra_headers, redirects_remaining, response) ==
  Activation("POST", 201, self, uri, extra_headers, redirects_remaining, response)

Put(self, uri, extra_headers, redirects_remaining, response) ==
  Activation("PUT", 200, self, uri, extra_headers, redirects_remaining, response)

Delete(self, uri, extra_headers, redirects_remaining, response) ==
  Activation("DELETE", 200, self, uri, extra_headers, redirects_remaining, response)

\* The default of redirects_remaining: 4 for Get, Post and Delete, 3 for Put.
GetRedirects == 4
PostRedirects == 4
PutRedirects == 3
DeleteRedirects == 4

\* A mutant of GetEntry: whatever Get returned is returned.
GetEntry_any(result) == [outcome |-> "return", result |-> result]

\* GetEntry and GetFeed: the check of the type of what Get returned.
GetEntry(result) ==
  IF result.type = "Entry" THEN [outcome |-> "return", result |-> result]
  ELSE [outcome |-> "UnexpectedReturnType", result |-> NoResult]

GetFeed(result) ==
  IF result.type = "Feed" THEN [outcome |-> "return", result |-> result]
  ELSE [outcome |-> "UnexpectedReturnType", result |-> NoResult]

(***************************************************************************)
(* class Query(dict).  An instance is its attribute feed (a string or      *)
(* None), its attribute categories (a list of strings) and its items as a  *)
(* dict (params).                                                          *)
(***************************************************************************)
\* The characters urllib.quote leaves as they are (of this model's strings).
AlwaysSafe == WordChars \cup {".", "-"}

\* %XX of the other characters of this model's strings.
PercentCode ==
  [c \in {"|", "/", "+", "%", "?", "&", "="} |->
     CASE c = "|" -> <<"%", "7", "C">>
       [] c = "/" -> <<"%", "2", "F">>
       [] c = "+" -> <<"%", "2", "B">>
       [] c = "%" -> <<"%", "2", "5">>
       [] c = "?" -> <<"%", "3", "F">>
       [] c = "&" -> <<"%", "2", "6">>
       [] c = "=" -> <<"%", "3", "D">>]

\* urllib.quote_plus(s): safe characters stay, a space becomes +, every
\* other character becomes %XX.
RECURSIVE quote_plus(_)
quote_plus(s) ==
  IF s = <<>> THEN <<>>
  ELSE (IF Head(s) \in AlwaysSafe THEN <<Head(s)>>
        ELSE IF Head(s) = " " THEN <<"+">>
        ELSE PercentCode[Head(s)]) \o quote_plus(Tail(s))

\* '/'.join(list)
RECURSIVE JoinSlash(_)
JoinSlash(list) ==
  IF list = <<>> THEN <<>>
  ELSE IF Len(list) = 1 THEN Head(list)
  ELSE Head(list) \o <<"/">> \o JoinSlash(Tail(list))

\* [urllib.quote_plus(c) for c in self.categories]
QuotedCategories(categories) ==
  [i \in DOMAIN categories |-> quote_plus(categories[i])]

\* app_service.BuildUri(uri, url_params): the URI of a path and the
\* parameters of its query, kept as the pair they are built from.
BuildUri(uri, url_params) == [path |-> uri, params |-> url_params]

\* The accessors: if key in self.keys() then self[key] else None, and
\* self[key] = query.
GetItemOrNone(self, key) ==
  IF key \in DOMAIN self.params THEN self.params[key] ELSE None

GetTextQuery(self) == GetItemOrNone(self, "q")
SetTextQuery(self, query_) == [self EXCEPT !.params = SetItem(@, "q", query_)]

GetAuthor(self) == GetItemOrNone(self, "author")

\* A mutant of SetAuthor: the value goes to the key q.
SetAuthor_q(self, query_) == [self EXCEPT !.params = SetItem(@, "q", query_)]

SetAuthor(self, query_) == [self EXCEPT !.params = SetItem(@, "author", query_)]

GetAlt(self) == GetItemOrNone(self, "alt")
SetAlt(self, query_) == [self EXCEPT !.params = SetItem(@, "alt", query_)]

GetUpdatedMin(self) == GetItemOrNone(self, "updated-min")
SetUpdatedMin(self, query_) ==
  [self EXCEPT !.params = SetItem(@, "updated-min", query_)]

GetUpdatedMax(self) == GetItemOrNone(self, "updated-max")
SetUpdatedMax(self, query_) ==
  [self EXCEPT !.params = SetItem(@, "updated-max", query_)]

GetPublishedMin(self) == GetItemOrNone(self, "published-min")
SetPublishedMin(self, query_) ==
  [self EXCEPT !.params = SetItem(@, "published-min", query_)]

GetPublishedMax(self) == GetItemOrNone(self, "published-max")
SetPublishedMax(self, query_) ==
  [self EXCEPT !.params = SetItem(@, "published-max", query_)]

GetStartIndex(self) == GetItemOrNone(self, "start-index")
SetStartIndex(self, query_) ==
  [self EXCEPT !.params = SetItem(@, "start-index", query_)]

GetMaxResults(self) == GetItemOrNone(self, "max-results")
SetMaxResults(self, query_) ==
  [self EXCEPT !.params = SetItem(@, "max-results", query_)]

\* for param in params: self[param] = params[param]
Update(d, params) ==
  [k \in (DOMAIN d) \cup (DOMAIN params) |->
     IF k \in DOMAIN params THEN params[k] ELSE d[k]]

\* Query.__init__.  The arguments params and categories are <<>> when left
\* out (None) and <<dict>>, <<list>> when given.
QueryInit(feed, text_query, params, categories) ==
  LET q0 == [feed |-> feed, categories |-> <<>>, params |-> EmptyDict]
      q1 == IF Truthy(text_query) THEN SetTextQuery(q0, text_query) ELSE q0
      q2 == IF params /= <<>>
            THEN [q1 EXCEPT !.params = Update(@, params[1])] ELSE q1
  IN IF categories /= <<>>
     THEN [q2 EXCEPT !.categories = @ \o categories[1]] ELSE q2

\* A mutant of ToUri: the categories are joined as they are.
ToUri_unquoted(self) ==
  LET q_feed == IF Truthy(self.feed) THEN self.feed ELSE <<>>
  IN [self |-> self,
      uri |-> BuildUri(IF Len(self.categories) > 0
                       THEN q_feed \o <<"/", "-", "/">>
                                   \o JoinSlash(self.categories)
                       ELSE q_feed, self.params)]

\* Query.ToUri: the URI, and the object as the method leaves it.
ToUri(self) ==
  LET q_feed == IF Truthy(self.feed) THEN self.feed ELSE <<>>
      category_string == JoinSlash(QuotedCategories(self.categories))
  IN [self |-> self,
      uri |-> BuildUri(IF Len(self.categories) > 0
                       THEN q_feed \o <<"/", "-", "/">> \o category_string
                       ELSE q_feed, self.params)]

(***************************************************************************)
(* What callers and servers supply.                                        *)
(***************************************************************************)
\* Strings of at most n characters from the set chars.
Strings(chars, n) == UNION {[1..k -> chars] : k \in 0..n}

\* Token values.  "t" occurs in Auth=, CaptchaToken= and CaptchaUrl=; "e"
\* occurs in Token= and CaptchaToken=; "x" occurs in none of the prefixes.
LoginTokens == Strings({"t", "x"}, MaxTokenLen)
SessionTokens == Strings({"e", "x"}, MaxTokenLen)

\* The lines of a body, each ended by a newline.
RECURSIVE Join(_)
Join(lines) ==
  IF lines = <<>> THEN <<>> ELSE Head(lines) \o <<NL>> \o Join(Tail(lines))

Optional(S) == {<<>>} \cup {<<x>> : x \in S}

SidLine == <<"S", "I", "D", "=", "s">>
ErrorOther ==
  ErrorPrefix \o <<"A", "c", "c", "o", "u", "n", "t", "D", "i", "s", "a", "b",
                   "l", "e", "d">>
CaptchaPath == <<"/", "t", "x">>

\* Bodies in the format of the ClientLogin service: key=value lines, each
\* key at most once.
GrantedBodies ==
  {Join(sid \o auth) :
     sid \in Optional({SidLine}),
     auth \in Optional({AuthPrefix \o tok : tok \in LoginTokens})}

DeniedBodies ==
  {Join(err \o ctok \o curl) :
     err \in Optional({ErrorCaptchaRequired, ErrorBadAuthentication, ErrorOther}),
     ctok \in Optional({CaptchaTokenPrefix \o tok : tok \in LoginTokens}),
     curl \in Optional({CaptchaUrlPrefix \o CaptchaPath})}

LoginResponses ==
  [status : {200, 500}, body : GrantedBodies] \cup
  [status : {403}, body : DeniedBodies]

UpgradeResponses ==
  [status : {200, 403},
   body : {Join(tok) : tok \in Optional({TokenPrefix \o v : v \in SessionTokens})}]

RevokeResponses == [status : {200, 403}, body : {<<>>}]

UriFeed == <<"/", "f">>
LocationPlain == <<"/", "n">>
LocationSession == <<"/", "n", "?">> \o GsessionidEq \o <<"A", "B">>

\* URIs with a query: one parameter q; a parameter gsessionid of the
\* caller's own; a parameter whose name only ends in gsessionid.
UriQuery == <<"/", "f", "?", "q", "=", "1">>
UriSession == <<"/", "f", "?">> \o GsessionidEq \o <<"C", "D">>
UriLookalike == <<"/", "f", "?", "x">> \o GsessionidEq \o <<"1">>

\* A Location whose session id holds a character that \w does not match.
LocationDash == <<"/", "n", "?">> \o GsessionidEq \o <<"A", "-", "B">>

RawBody == <<"r">>

Response(status, reason, body, location) ==
  [status |-> status, reason |-> reason, body |-> body, location |-> location]

\* What the callers and the servers of a specification supply: the tokens
\* given to the auth_token setter, the answers of the three account
\* services, the arguments of the CRUD calls (URIs; whether extra_headers
\* is the caller's dict; explicit values of redirects_remaining, besides
\* the default) and the answers of the GData server.
AccountInputs ==
  [tokens |-> SessionTokens \cup {None},
   login |-> LoginResponses,
   upgrade |-> UpgradeResponses,
   revoke |-> RevokeResponses,
   uris |-> {UriFeed},
   shared |-> {FALSE},
   redirects |-> {},
   crud |-> {Response(200, "OK", FeedXml, None),
             Response(302, "Found", <<>>, LocationSession)}]

\* One answer of each account service, all granting the token x.
TokenX == <<"x">>
LoginGranted == [status |-> 200, body |-> Join(<<AuthPrefix \o TokenX>>)]
UpgradeGranted == [status |-> 200, body |-> Join(<<TokenPrefix \o TokenX>>)]
RevokeGranted == [status |-> 200, body |-> <<>>]

\* Callers that vary the token, the URI and the headers dict of the CRUD
\* calls, against a server that answers 200 with a feed or redirects, with
\* a session id in the Location or without one.
RequestInputs ==
  [tokens |-> {None, <<>>, TokenX},
   login |-> {LoginGranted},
   upgrade |-> {UpgradeGranted},
   revoke |-> {RevokeGranted},
   uris |-> {UriFeed, UriQuery, UriSession, UriLookalike},
   shared |-> {FALSE, TRUE},
   redirects |-> {},
   crud |-> {Response(200, "OK", FeedXml, None),
             Response(302, "Found", <<>>, LocationPlain),
             Response(302, "Found", <<>>, LocationSession)}]

\* Callers that vary redirects_remaining, against a server that gives every
\* kind of answer: the success statuses with a feed, an entry or a body
\* that is neither; redirects with and without a Location; an error.
RedirectInputs ==
  [tokens |-> {TokenX},
   login |-> {LoginGranted},
   upgrade |-> {UpgradeGranted},
   revoke |-> {RevokeGranted},
   uris |-> {UriFeed},
   shared |-> {FALSE},
   redirects |-> -1..MaxRedirects,
   crud |-> {Response(200, "OK", FeedXml, None),
             Response(200, "OK", EntryXml, None),
             Response(200, "OK", RawBody, None),
             Response(201, "Created", EntryXml, None),
             Response(302, "Found", RawBody, None),
             Response(302, "Found", RawBody, LocationPlain),
             Response(302, "Found", RawBody, LocationSession),
             Response(302, "Found", RawBody, LocationDash),
             Response(404, "Not Found", RawBody, None)}]

\* Values of query parameters, a feed path and categories: a plain one, an
\* OR of two, one with a space and a slash.
V5 == <<"5">>
V7 == <<"7">>
FeedX == <<"/", "f", "e", "e", "d", "s", "/", "x">>
CatPlain == <<"A">>
CatOr == <<"B", "|", "C">>
CatSpace == <<"a", " ", "/">>

Accessors ==
  {"text_query", "author", "alt", "updated_min", "updated_max",
   "published_min", "published_max", "start_index", "max_results"}

\* What the callers of a Query supply: the arguments of the constructor
\* (feed, text_query, params, categories), the categories appended to the
\* list, the accessors used and the values assigned through them.
AccessorInputs ==
  [feeds |-> {None},
   text_queries |-> {None, <<>>, V5},
   params |-> {<<>>, <<[author |-> V7]>>},
   lists |-> {<<>>},
   categories |-> {CatPlain},
   accessors |-> Accessors,
   values |-> {V5, V7}]

UriInputs ==
  [feeds |-> {None, <<>>, FeedX},
   text_queries |-> {None},
   params |-> {<<>>},
   lists |-> {<<>>, <<<<CatPlain, CatOr>>>>},
   categories |-> {CatPlain, CatOr, CatSpace},
   accessors |-> {"max_results"},
   values |-> {V5}]

(***************************************************************************)
(* The state machine.  Calls are sequential: a new call starts only when   *)
(* no CRUD call is waiting for its redirect to be followed.                *)
(***************************************************************************)
\* No thread is inside a method.  The writer is the thread that runs an
\* operation on the credentials, todo being the assignments it has still
\* to make; the reader is the thread that runs a CRUD call, pc being its
\* next statement, auth_type the value it has read, and interleaved
\* whether, at some statement of the call or between two of them, the
\* writer was inside an operation with assignments still to make.
NoThreads ==
  [writer |-> [op |-> "", todo |-> <<>>],
   reader |-> [pc |-> "idle", uri |-> <<>>, auth_type |-> None,
               interleaved |-> FALSE]]

Init ==
  /\ auth_token = NewService.auth_token
  /\ auth_type = NewService.auth_type
  /\ captcha_token = NewService.captcha_token
  /\ captcha_url = NewService.captcha_url
  /\ gsessionid = NewService.gsessionid
  /\ caller_headers = EmptyDict
  /\ call = <<>>
  /\ threads = NoThreads
  /\ query = QueryInit(None, None, <<>>, <<>>)
  /\ answer = [op |-> "__init__", name |-> "", value |-> None,
               uri |-> [path |-> <<>>, params |-> EmptyDict]]
  /\ last = [op |-> "__init__", requests |-> <<>>, responses |-> <<>>,
             outcome |-> "return", result |-> NoResult, error |-> <<>>,
                            uri |-> <<>>, budget |-> 0, sent |-> 0]

\* The instance's fields become those of the record.
Store(self) ==
  /\ auth_token' = self.auth_token
  /\ auth_type' = self.auth_type
  /\ captcha_token' = self.captcha_token
  /\ captcha_url' = self.captcha_url
  /\ gsessionid' = self.gsessionid

\* service.auth_token = token
SetToken(in) ==
  /\ call = <<>>
  /\ \E token \in in.tokens :
       /\ Store(SetAuthSubToken(Self, token))
       /\ last' = [op |-> "auth_token", requests |-> <<>>, responses |-> <<>>,
                   outcome |-> "return", result |-> NoResult, error |-> <<>>,
                            uri |-> <<>>, budget |-> 0, sent |-> 0]
  /\ UNCHANGED <<caller_headers, call, query, answer, threads>>

\* service.ProgrammaticLogin()
Login(in) ==
  /\ call = <<>>
  /\ \E response \in in.login :
       LET r == ProgrammaticLogin(Self, response.status, response.body)
       IN /\ Store(r.self)
          /\ last' = [op |-> "ProgrammaticLogin",
                      requests |-> <<[method |-> "POST", uri |-> ClientLoginPath,
                                      headers |-> EmptyDict]>>,
                      responses |-> <<response>>,
                      outcome |-> r.raised, result |-> NoResult, error |-> <<>>,
                            uri |-> <<>>, budget |-> 0, sent |-> 1]
  /\ UNCHANGED <<caller_headers, call, query, answer, threads>>

\* service.UpgradeToSessionToken()
Upgrade(in) ==
  /\ call = <<>>
  /\ IF UpgradeGuard(Self)
     THEN /\ UNCHANGED svars
          /\ last' = [op |-> "UpgradeToSessionToken", requests |-> <<>>,
                      responses |-> <<>>, outcome |-> "NonAuthSubToken",
                      result |-> NoResult, error |-> <<>>,
                            uri |-> <<>>, budget |-> 0, sent |-> 0]
     ELSE \E response \in in.upgrade :
            LET r == UpgradeToSessionToken(Self, response.status, response.body)
            IN /\ Store(r.self)
               /\ last' = [op |-> "UpgradeToSessionToken",
                           requests |-> <<AuthSubRequest(Self, AuthSubSessionTokenPath)>>,
                           responses |-> <<response>>,
                           outcome |-> r.raised, result |-> NoResult,
                           error |-> <<>>,
                            uri |-> <<>>, budget |-> 0, sent |-> 1]
  /\ UNCHANGED <<caller_headers, call, query, answer, threads>>

\* service.RevokeAuthSubToken()
Revoke(in) ==
  /\ call = <<>>
  /\ IF RevokeGuard(Self)
     THEN /\ UNCHANGED svars
          /\ last' = [op |-> "RevokeAuthSubToken", requests |-> <<>>,
                      responses |-> <<>>, outcome |-> "NonAuthSubToken",
                      result |-> NoResult, error |-> <<>>,
                            uri |-> <<>>, budget |-> 0, sent |-> 0]
     ELSE \E response \in in.revoke :
            LET r == RevokeAuthSubToken(Self, response.status)
            IN /\ Store(r.self)
               /\ last' = [op |-> "RevokeAuthSubToken",
                           requests |-> <<AuthSubRequest(Self, AuthSubRevokeTokenPath)>>,
                           responses |-> <<response>>,
                           outcome |-> r.raised, result |-> NoResult,
                           error |-> <<>>,
                            uri |-> <<>>, budget |-> 0, sent |-> 1]
  /\ UNCHANGED <<caller_headers, call, query, answer, threads>>

\* The method an operation runs: GetEntry and GetFeed call Get.
Method(op, self, uri, headers, redirects_remaining, response) ==
  IF op \in {"Get", "GetEntry", "GetFeed"}
  THEN Get(self, uri, headers, redirects_remaining, response)
  ELSE IF op = "Post"
  THEN Post(self, uri, headers, redirects_remaining, response)
  ELSE IF op = "Put"
  THEN Put(self, uri, headers, redirects_remaining, response)
  ELSE Delete(self, uri, headers, redirects_remaining, response)

\* What the caller of the operation gets when the method's activation ends.
Outcome(op, act) ==
  IF act.ends = "recurse"
  THEN [outcome |-> "recurse", result |-> NoResult]
  ELSE IF act.ends = "raise"
  THEN [outcome |-> "RequestError", result |-> NoResult]
  ELSE IF op = "GetEntry" THEN GetEntry(act.result)
  ELSE IF op = "GetFeed" THEN GetFeed(act.result)
  ELSE [outcome |-> "return", result |-> act.result]

\* One activation of op's method and the server's answer to its request.
\* shared: extra_headers is the caller's dict, which the method changes in
\* place; otherwise it is a dict the method made itself.
\* In last, uri is the argument of the activation, budget is the
\* redirects_remaining the application's call was given and sent counts the
\* requests the call has handed to the transport.
CrudStep(in, op, uri, headers, shared, redirects_remaining) ==
  \E response \in in.crud :
    LET act == Method(op, Self, uri, headers, redirects_remaining, response)
        out == Outcome(op, act)
    IN /\ Store(act.self)
       /\ caller_headers' = IF shared THEN act.extra_headers
                            ELSE caller_headers
       /\ call' = IF act.ends = "recurse"
                  THEN <<[op |-> op, uri |-> act.call.uri,
                          headers |-> act.extra_headers, shared |-> shared,
                          redirects_remaining |-> act.call.redirects_remaining]>>
                  ELSE <<>>
       /\ last' = [op |-> op, requests |-> <<act.request>>,
                   responses |-> <<response>>, outcome |-> out.outcome,
                   result |-> out.result, error |-> act.error, uri |-> uri,
                   budget |-> IF call = <<>> THEN redirects_remaining
                              ELSE last.budget,
                   sent |-> IF call = <<>> THEN 1 ELSE last.sent + 1]
       /\ UNCHANGED <<query, answer, threads>>

\* A call by the application: extra_headers is None (the method makes a new
\* dict) or the caller's dict; redirects_remaining is the default or given.
CrudCall(in, op, redirects) ==
  \E uri \in in.uris, shared \in in.shared, redirects_remaining \in redirects :
    CrudStep(in, op, uri, IF shared THEN caller_headers ELSE EmptyDict,
             shared, redirects_remaining)

CallGet(in) ==
  /\ call = <<>>
  /\ CrudCall(in, "Get", {GetRedirects} \cup in.redirects)

CallGetEntry(in) ==
  /\ call = <<>>
  /\ CrudCall(in, "GetEntry", {GetRedirects})

CallGetFeed(in) ==
  /\ call = <<>>
  /\ CrudCall(in, "GetFeed", {GetRedirects})

CallPost(in) ==
  /\ call = <<>>
  /\ CrudCall(in, "Post", {PostRedirects} \cup in.redirects)

CallPut(in) ==
  /\ call = <<>>
  /\ CrudCall(in, "Put", {PutRedirects} \cup in.redirects)

CallDelete(in) ==
  /\ call = <<>>
  /\ CrudCall(in, "Delete", {DeleteRedirects} \cup in.redirects)

\* The recursive call of the method for a redirect.
Follow(in) ==
  /\ call /= <<>>
  /\ CrudStep(in, call[1].op, call[1].uri, call[1].headers, call[1].shared,
              call[1].redirects_remaining)

Calls(in) ==
  \/ SetToken(in)
  \/ Login(in)
  \/ Upgrade(in)
  \/ Revoke(in)
  \/ CallGet(in)
  \/ CallGetEntry(in)
  \/ CallGetFeed(in)
  \/ CallPost(in)
  \/ CallPut(in)
  \/ CallDelete(in)
  \/ Follow(in)

\* The getter and the setter behind each property of Query.
Getter(name, self) ==
  CASE name = "text_query" -> GetTextQuery(self)
    [] name = "author" -> GetAuthor(self)
    [] name = "alt" -> GetAlt(self)
    [] name = "updated_min" -> GetUpdatedMin(self)
    [] name = "updated_max" -> GetUpdatedMax(self)
    [] name = "published_min" -> GetPublishedMin(self)
    [] name = "published_max" -> GetPublishedMax(self)
    [] name = "start_index" -> GetStartIndex(self)
    [] name = "max_results" -> GetMaxResults(self)

Setter(name, self, value) ==
  CASE name = "text_query" -> SetTextQuery(self, value)
    [] name = "author" -> SetAuthor(self, value)
    [] name = "alt" -> SetAlt(self, value)
    [] name = "updated_min" -> SetUpdatedMin(self, value)
    [] name = "updated_max" -> SetUpdatedMax(self, value)
    [] name = "published_min" -> SetPublishedMin(self, value)
    [] name = "published_max" -> SetPublishedMax(self, value)
    [] name = "start_index" -> SetStartIndex(self, value)
    [] name = "max_results" -> SetMaxResults(self, value)

NoUri == BuildUri(<<>>, EmptyDict)

\* What answer holds after an operation on the Query: the operation, the
\* property it went through, the value read or assigned, the URI returned.
Answer(op, name, value, uri) ==
  [op |-> op, name |-> name, value |-> value, uri |-> uri]

\* query = Query(feed, text_query, params, categories)
Construct(in) ==
  /\ \E feed \in in.feeds, text_query \in in.text_queries,
        params \in in.params, categories \in in.lists :
       query' = QueryInit(feed, text_query, params, categories)
  /\ answer' = Answer("__init__", "", None, NoUri)
  /\ UNCHANGED gvars

\* query.<name> = value
WriteAccessor(in) ==
  /\ \E name \in in.accessors, value \in in.values :
       /\ Cardinality(DOMAIN Setter(name, query, value).params) <= MaxParams
       /\ query' = Setter(name, query, value)
       /\ answer' = Answer("set", name, value, NoUri)
  /\ UNCHANGED gvars

\* query.<name>
ReadAccessor(in) ==
  /\ \E name \in in.accessors :
       answer' = Answer("get", name, Getter(name, query), NoUri)
  /\ UNCHANGED <<gvars, query>>

\* query.categories.append(category)
AppendCategory(in) ==
  /\ Len(query.categories) < MaxCategories
  /\ \E category \in in.categories :
       query' = [query EXCEPT !.categories = Append(@, category)]
  /\ answer' = Answer("append", "", None, NoUri)
  /\ UNCHANGED gvars

\* query.ToUri()
CallToUri(in) ==
  /\ query' = ToUri(query).self
  /\ answer' = Answer("ToUri", "", None, ToUri(query).uri)
  /\ UNCHANGED gvars

QueryCalls(in) ==
  \/ Construct(in)
  \/ WriteAccessor(in)
  \/ ReadAccessor(in)
  \/ AppendCategory(in)
  \/ CallToUri(in)

\* A Query used through all its accessors.
NextAccessors == QueryCalls(AccessorInputs)

SpecAccessors == Init /\ [][NextAccessors]_vars

\* A Query built from feeds and categories and turned into URIs.
NextUri == QueryCalls(UriInputs)

SpecUri == Init /\ [][NextUri]_vars

\* The account operations with every answer of the account services, and
\* the CRUD operations against a server that answers 200 with a feed or
\* redirects with a session id.
Next == Calls(AccountInputs)

Spec == Init /\ [][Next]_vars

\* The same operations with the callers and the server of RequestInputs.
NextRequest == Calls(RequestInputs)

SpecRequest == Init /\ [][NextRequest]_vars

\* The same operations with the callers and the server of RedirectInputs.
NextRedirect == Calls(RedirectInputs)

SpecRedirect == Init /\ [][NextRedirect]_vars

\* The recursive call of a method is made as soon as the method reaches it,
\* and the transport answers every request.
LiveRedirect == SpecRedirect /\ WF_vars(Follow(RedirectInputs))

(***************************************************************************)
(* Two threads that use one instance without a lock.  A thread may be      *)
(* suspended between any two statements, so every assignment to a field    *)
(* and every read of a field in the lines that build the Authorization     *)
(* header is a step of its own.                                            *)
(***************************************************************************)
Write(field, value) == [field |-> field, value |-> value]

\* self.<field> = value
Assign(self, w) == [self EXCEPT ![w.field] = w.value]

\* The assignments of _SetAuthSubToken, in the order it makes them.
SetTokenWrites(token) ==
  <<Write("auth_token", token), Write("auth_type", AUTHSUB_AUTH_LABEL)>>

\* The assignments of ProgrammaticLogin for the lines of a 200 response.
RECURSIVE LoginWrites(_)
LoginWrites(lines) ==
  IF lines = <<>> THEN <<>>
  ELSE (IF startswith(Head(lines), AuthPrefix)
        THEN <<Write("auth_token", lstrip(Head(lines), AuthPrefix)),
               Write("auth_type", PROGRAMMATIC_AUTH_LABEL),
               Write("captcha_token", None),
               Write("captcha_url", None)>>
        ELSE <<>>) \o LoginWrites(Tail(lines))

\* A mutant of RevokeWrites: only the type is cleared.
RevokeWrites_typeonly == <<Write("auth_type", None)>>

\* The assignments of RevokeAuthSubToken after a 200.
RevokeWrites == <<Write("auth_type", None), Write("auth_token", None)>>

\* What the threads' callers and servers supply.
ThreadInputs ==
  [tokens |-> {TokenX},
   login |-> {LoginGranted},
   revoke |-> {RevokeGranted},
   uris |-> {UriFeed},
   crud |-> {Response(200, "OK", FeedXml, None),
             Response(404, "Not Found", RawBody, None)}]

\* The writer is inside an operation, with assignments still to make.
Writing == threads.writer.todo /= <<>>

\* The writer enters an operation: everything up to its first assignment.
Enter(op, todo) ==
  /\ threads' = [threads EXCEPT !.writer = [op |-> op, todo |-> todo]]
  /\ UNCHANGED <<svars, caller_headers, call, last, query, answer>>

\* service.auth_token = token
StartSetToken(in) ==
  /\ ~Writing
  /\ \E token \in in.tokens : Enter("auth_token", SetTokenWrites(token))

\* service.ProgrammaticLogin(), up to the answer of the login service
StartLogin(in) ==
  /\ ~Writing
  /\ \E response \in in.login :
       Enter("ProgrammaticLogin",
             IF response.status = 200
             THEN LoginWrites(splitlines(response.body)) ELSE <<>>)

\* service.RevokeAuthSubToken(), up to the answer of the revoke service
StartRevoke(in) ==
  /\ ~Writing
  /\ ~RevokeGuard(Self)
  /\ \E response \in in.revoke :
       Enter("RevokeAuthSubToken",
             IF response.status = 200 THEN RevokeWrites ELSE <<>>)

\* The writer makes its next assignment.
WriterStep ==
  /\ Writing
  /\ Store(Assign(Self, Head(threads.writer.todo)))
  /\ threads' = [threads EXCEPT
                   !.writer.todo = Tail(@),
                   !.reader.interleaved = @ \/ threads.reader.pc /= "idle"]
  /\ UNCHANGED <<caller_headers, call, last, query, answer>>

\* The reader's call hands its request to the transport and returns or
\* raises for the answer (an answer that is no redirect).
Transport(in, uri, headers) ==
  \E response \in in.crud :
    LET act == Get(Self, uri, EmptyDict, GetRedirects, response)
    IN /\ act.ends /= "recurse"
       /\ last' = [op |-> "Get",
                   requests |-> <<[act.request EXCEPT !.headers = headers]>>,
                   responses |-> <<response>>,
                   outcome |-> Outcome("Get", act).outcome,
                   result |-> Outcome("Get", act).result,
                   error |-> act.error, uri |-> uri,
                   budget |-> GetRedirects, sent |-> 1]

\* service.Get(uri) up to the test `if self.__auth_token:`; without a
\* token the request goes out with no Authorization header.
ReaderStart(in) ==
  /\ threads.reader.pc = "idle"
  /\ \E uri \in in.uris :
       IF Truthy(auth_token)
       THEN /\ threads' = [threads EXCEPT
                             !.reader = [pc |-> "auth_type", uri |-> uri,
                                         auth_type |-> None,
                                         interleaved |-> Writing]]
            /\ UNCHANGED last
       ELSE /\ threads' = [threads EXCEPT
                             !.reader = [pc |-> "idle", uri |-> uri,
                                         auth_type |-> None,
                                         interleaved |-> Writing]]
            /\ Transport(in, uri, EmptyDict)
  /\ UNCHANGED <<svars, caller_headers, call, query, answer>>

\* The reader evaluates self.__auth_type, the first operand of the header.
ReaderReadType ==
  /\ threads.reader.pc = "auth_type"
  /\ threads' = [threads EXCEPT !.reader.pc = "auth_token",
                                !.reader.auth_type = auth_type,
                                !.reader.interleaved = @ \/ Writing]
  /\ UNCHANGED <<svars, caller_headers, call, last, query, answer>>

\* The reader evaluates self.__auth_token, the second operand, stores the
\* header and goes on to the transport.
ReaderSend(in) ==
  /\ threads.reader.pc = "auth_token"
  /\ threads' = [threads EXCEPT !.reader.pc = "idle",
                                !.reader.interleaved = @ \/ Writing]
  /\ Transport(in, threads.reader.uri,
               SetItem(EmptyDict, "Authorization",
                       AuthorizationValue(threads.reader.auth_type,
                                          auth_token)))
  /\ UNCHANGED <<svars, caller_headers, call, query, answer>>

NextThreads ==
  \/ StartSetToken(ThreadInputs)
  \/ StartLogin(ThreadInputs)
  \/ StartRevoke(ThreadInputs)
  \/ WriterStep
  \/ ReaderStart(ThreadInputs)
  \/ ReaderReadType
  \/ ReaderSend(ThreadInputs)

SpecThreads == Init /\ [][NextThreads]_vars

(***************************************************************************)
(* Properties.                                                             *)
(***************************************************************************)
\* The lines of the body the server answered the last call with.
LastLines == splitlines(last.responses[1].body)

\* The part of a line after a prefix it starts with.
After(line, prefix) == SubSeq(line, Len(prefix) + 1, Len(line))

\* The lines of the last response that start with a prefix.
LinesWith(prefix) ==
  {LastLines[i] : i \in {j \in DOMAIN LastLines : startswith(LastLines[j], prefix)}}

\* The last call was a ProgrammaticLogin answered with the status.
LoginAnswered(status) ==
  /\ last.op = "ProgrammaticLogin"
  /\ last.responses[1].status = status

CaptchaAbsent == captcha_token = None /\ captcha_url = None

\* C1: in every reachable state auth_type is set if and only if auth_token
\* is set.
C1_TypeIffToken == (auth_type /= None) <=> (auth_token /= None)

\* C2: after a ProgrammaticLogin that ended in anything but a captcha
\* challenge, captcha_token and captcha_url are both absent.
C2_CaptchaClearedUnlessChallenge ==
  (last.op = "ProgrammaticLogin" /\ last.outcome /= "CaptchaRequired")
    => CaptchaAbsent

\* C3: after a ProgrammaticLogin answered 200 with a line Auth=XYZ, the
\* token is exactly XYZ, the type is the programmatic label and the captcha
\* fields are absent.
C3_TokenIsRestOfAuthLine ==
  LoginAnswered(200) =>
    \A line \in LinesWith(AuthPrefix) :
      /\ auth_token = After(line, AuthPrefix)
      /\ auth_type = PROGRAMMATIC_AUTH_LABEL
      /\ CaptchaAbsent

\* C4: after a ProgrammaticLogin answered 403 with the lines
\* Error=CaptchaRequired, CaptchaToken=T and CaptchaUrl=/U, the call has
\* raised CaptchaRequired, captcha_token is exactly T and captcha_url is
\* https://www.google.com/accounts/Captcha/U.
C4_CaptchaFromResponse ==
  (/\ LoginAnswered(403)
   /\ LinesWith(ErrorPrefix) = {ErrorCaptchaRequired})
    => /\ last.outcome = "CaptchaRequired"
       /\ \A line \in LinesWith(CaptchaTokenPrefix) :
            captcha_token = After(line, CaptchaTokenPrefix)
       /\ \A line \in LinesWith(CaptchaUrlPrefix) :
            captcha_url = CaptchaUrlBase \o After(line, CaptchaUrlPrefix)

\* C5: after a ProgrammaticLogin answered 403 with Error=BadAuthentication,
\* the call has raised BadAuthentication and captcha_token and captcha_url
\* are absent, whatever captcha lines the response carried and whatever an
\* earlier attempt had stored.
C5_BadAuthenticationClearsCaptcha ==
  (/\ LoginAnswered(403)
   /\ LinesWith(ErrorPrefix) = {ErrorBadAuthentication})
    => /\ last.outcome = "BadAuthentication"
       /\ CaptchaAbsent

\* C5's case: BadAuthentication was raised for a response that carried a
\* captcha token and a captcha URL of its own.
C5_Witness ==
  /\ LoginAnswered(403)
  /\ LinesWith(ErrorPrefix) = {ErrorBadAuthentication}
  /\ LinesWith(CaptchaTokenPrefix) /= {}
  /\ LinesWith(CaptchaUrlPrefix) /= {}
  /\ last.outcome = "BadAuthentication"
  /\ CaptchaAbsent

\* C6: after a ProgrammaticLogin answered 403 with a body that names
\* neither Error=CaptchaRequired nor Error=BadAuthentication (another Error
\* value, or no Error= line), the call has raised the module's Error and
\* captcha_token and captcha_url are absent.
C6_Other403RaisesError ==
  (/\ LoginAnswered(403)
   /\ LinesWith(ErrorPrefix) \cap
        {ErrorCaptchaRequired, ErrorBadAuthentication} = {})
    => /\ last.outcome = "Error"
       /\ CaptchaAbsent

\* C7: a ProgrammaticLogin answered with a status other than 200 and 403
\* has raised the generic Error; it has not returned normally.
C7_OtherStatusRaisesError ==
  (/\ last.op = "ProgrammaticLogin"
   /\ last.responses[1].status \notin {200, 403})
    => last.outcome = "Error"

\* C8: when auth_type is not the AuthSub label, UpgradeToSessionToken and
\* RevokeAuthSubToken raise NonAuthSubToken, send no request, and leave the
\* token, the type, the captcha fields and the session id as they were.
C8_NonAuthSubTokenRefused ==
  [][(/\ auth_type /= AUTHSUB_AUTH_LABEL
      /\ last'.op \in {"UpgradeToSessionToken", "RevokeAuthSubToken"})
       => /\ last'.outcome = "NonAuthSubToken"
          /\ last'.requests = <<>>
          /\ UNCHANGED svars]_vars

\* C8's case: UpgradeToSessionToken was refused while the instance held a
\* token from ProgrammaticLogin and a session id.
C8_Witness ==
  /\ last.op = "UpgradeToSessionToken"
  /\ last.outcome = "NonAuthSubToken"
  /\ auth_type = PROGRAMMATIC_AUTH_LABEL
  /\ Truthy(auth_token)
  /\ gsessionid /= None

\* C9: UpgradeToSessionToken called with an AuthSub token set: answered 200
\* with a line Token=V it leaves the token exactly V and the type the
\* AuthSub label; answered with another status it returns normally with the
\* token and the type it sent in its Authorization header.
C9_UpgradeStoresToken ==
  (/\ last.op = "UpgradeToSessionToken"
   /\ last.requests /= <<>>
   /\ last.requests[1].headers["Authorization"] /=
        AuthorizationValue(AUTHSUB_AUTH_LABEL, None))
    => /\ last.outcome = "return"
       /\ auth_type = AUTHSUB_AUTH_LABEL
       /\ IF last.responses[1].status = 200
          THEN \A line \in LinesWith(TokenPrefix) :
                 auth_token = After(line, TokenPrefix)
          ELSE AuthorizationValue(auth_type, auth_token) =
                 last.requests[1].headers["Authorization"]

\* C10: RevokeAuthSubToken called with an AuthSub token set sends its
\* request; answered 200 it leaves the type and the token absent; answered
\* with another status it leaves both as they were, and with them the
\* Authorization header of the CRUD requests.
C10_RevokeClearsOn200Only ==
  [][(/\ auth_type = AUTHSUB_AUTH_LABEL
      /\ auth_token /= None
      /\ last'.op = "RevokeAuthSubToken")
       => /\ last'.requests /= <<>>
          /\ last'.outcome = "return"
          /\ IF last'.responses[1].status = 200
             THEN auth_type' = None /\ auth_token' = None
             ELSE /\ UNCHANGED <<auth_token, auth_type>>
                  /\ AddAuthorization([auth_token |-> auth_token',
                                       auth_type |-> auth_type'], EmptyDict)
                       = AddAuthorization(Self, EmptyDict)]_vars

\* C10's case: a revoke answered 200 has cleared the credentials.
C10_Witness ==
  /\ last.op = "RevokeAuthSubToken"
  /\ last.requests /= <<>>
  /\ last.requests[1].headers["Authorization"] /=
       AuthorizationValue(AUTHSUB_AUTH_LABEL, None)
  /\ last.responses[1].status = 200
  /\ auth_type = None
  /\ auth_token = None

\* The operations that hand requests to the GData transport.
CrudOps == {"Get", "GetEntry", "GetFeed", "Post", "Put", "Delete"}

\* The request of the last activation and the server's answer to it.
LastRequest == last.requests[1]
LastResponse == last.responses[1]

\* C11: every request of Get, Post, Put and Delete, the first and every
\* redirected one, carries an Authorization header exactly when a token is
\* present at that moment, and then its value is <auth_type>=<auth_token>
\* of the current fields.  A token is taken as present when it is neither
\* None nor the empty string, which is the test the methods make.
C11_AuthorizationIffToken ==
  last.op \in CrudOps =>
    IF Truthy(auth_token)
    THEN /\ "Authorization" \in DOMAIN LastRequest.headers
         /\ LastRequest.headers["Authorization"] =
              AuthorizationValue(auth_type, auth_token)
    ELSE "Authorization" \notin DOMAIN LastRequest.headers

\* A URI has a parameter gsessionid: ?gsessionid= or &gsessionid= occurs.
HasSessionParameter(uri) ==
  \E i \in 1..(Len(uri) - Len(GsessionidEq)) :
    /\ uri[i] \in {"?", "&"}
    /\ SubSeq(uri, i + 1, i + Len(GsessionidEq)) = GsessionidEq

HasQuery(uri) == \E i \in DOMAIN uri : uri[i] = "?"

\* C12: with a session id known and a URI that has no gsessionid
\* parameter, the transport gets the URI with ?gsessionid=<id> appended
\* when it has no ?, and with &gsessionid=<id> appended when it has one;
\* with no session id known, or a URI that has the parameter, the transport
\* gets the URI unchanged.
C12_SessionIdAppended ==
  [][last'.op \in CrudOps =>
       IF gsessionid /= None /\ ~HasSessionParameter(last'.uri)
       THEN last'.requests[1].uri =
              last'.uri \o (IF HasQuery(last'.uri) THEN <<"&">> ELSE <<"?">>)
                        \o GsessionidEq \o gsessionid
       ELSE last'.requests[1].uri = last'.uri]_vars

\* The part of a string before its first &.
RECURSIVE UpToAmpersand(_)
UpToAmpersand(s) ==
  IF s = <<>> \/ Head(s) = "&" THEN <<>>
  ELSE <<Head(s)>> \o UpToAmpersand(Tail(s))

\* The values of the parameters gsessionid of a URI.
SessionValues(uri) ==
  {UpToAmpersand(SubSeq(uri, i + Len(GsessionidEq) + 1, Len(uri))) :
     i \in {j \in 1..(Len(uri) - Len(GsessionidEq)) :
              /\ uri[j] \in {"?", "&"}
              /\ SubSeq(uri, j + 1, j + Len(GsessionidEq)) = GsessionidEq}}

SuccessStatus(op) == IF op = "Post" THEN 201 ELSE 200

\* The redirects_remaining of the activation that made the last request.
Remaining(l) == l.budget - (l.sent - 1)

\* C14: the redirect chase, activation by activation.  A follow-up request
\* goes to the Location of the 302 before it; a 302 with a Location and
\* budget left is followed, and leaves as session id the gsessionid value
\* of its Location when the Location carries one, and the session id as it
\* was when it carries none; the verb's success status ends the call with
\* the result parsed from that response, the session id as the last such
\* Location left it.
C14_RedirectChase ==
  [][last'.op \in {"Get", "Post", "Put", "Delete"} =>
       LET response == last'.responses[1]
       IN /\ call /= <<>> =>
               /\ LastResponse.status = 302
               /\ last'.uri = LastResponse.location
               /\ SubSeq(last'.requests[1].uri, 1, Len(last'.uri)) = last'.uri
          /\ (/\ response.status = 302
              /\ response.location /= None
              /\ Remaining(last') > 0) =>
               /\ last'.outcome = "recurse"
               /\ gsessionid' =
                    IF SessionValues(response.location) = {} THEN gsessionid
                    ELSE CHOOSE v \in SessionValues(response.location) : TRUE
          /\ response.status = SuccessStatus(last'.op) =>
               /\ last'.outcome = "return"
               /\ last'.result = IF last'.op = "Delete" THEN TrueResult
                                 ELSE ParseResult(response.body)
               /\ gsessionid' = gsessionid]_vars

\* C15: a 302 received with redirects_remaining <= 0 makes the call fail
\* with RequestError, with or without a Location; no further request
\* follows and the session id stays as it was, also when the Location
\* carries gsessionid.
C15_RedirectExhaustion ==
  [][(/\ last'.op \in CrudOps
      /\ last'.responses[1].status = 302
      /\ Remaining(last') <= 0)
       => /\ last'.outcome = "RequestError"
          /\ Len(last'.error) = 1
          /\ last'.error[1].status = 302
          /\ call' = <<>>
          /\ gsessionid' = gsessionid]_vars

\* C15's case: a first call with redirects_remaining = 0 was answered 302
\* with a Location that carries a session id, and has failed with no
\* session id stored.
C15_Witness ==
  /\ last.op \in CrudOps
  /\ last.budget = 0
  /\ last.sent = 1
  /\ LastResponse.status = 302
  /\ LastResponse.location = LocationSession
  /\ last.outcome = "RequestError"
  /\ call = <<>>
  /\ gsessionid = None

\* The most requests a call with the default redirects_remaining makes.
MaxRequests(op) == IF op = "Put" THEN PutRedirects + 1 ELSE GetRedirects + 1

\* A call given redirects_remaining = n >= 0 has made at most n + 1
\* requests, and a pending recursive call has n less one per redirect
\* followed so far, never less than 0.
RequestsBounded ==
  (last.op \in CrudOps /\ last.budget >= 0) =>
    /\ last.sent <= last.budget + 1
    /\ last.sent <= MaxRequests(last.op)
    /\ call /= <<>> =>
         /\ call[1].redirects_remaining = last.budget - last.sent
         /\ call[1].redirects_remaining >= 0

\* C16: every CRUD call terminates, whatever the server answers: a call
\* given redirects_remaining = n >= 0 makes at most n + 1 requests, the
\* budget going down by one per redirect followed, which with the defaults
\* is at most 5 requests for Get, Post and Delete and 4 for Put; and a call
\* that has a redirect to follow comes to its end.
C16_CallTerminates ==
  /\ []RequestsBounded
  /\ (call /= <<>>) ~> (call = <<>>)

\* C16's case: a Get with the default budget was answered 302 five times
\* and has ended after its fifth request.
C16_Witness ==
  /\ last.op = "Get"
  /\ last.budget = GetRedirects
  /\ last.sent = 5
  /\ LastResponse.status = 302
  /\ LastResponse.location /= None
  /\ last.outcome = "RequestError"
  /\ call = <<>>

\* C17: a response whose status is neither the verb's success status nor
\* 302 makes the call fail with RequestError carrying that status, the
\* transport's reason phrase and the body, and no request follows; 201
\* answered to a Get and 200 answered to a Post are such failures.
C17_OtherStatusFails ==
  (/\ last.op \in CrudOps
   /\ LastResponse.status \notin {SuccessStatus(last.op), 302})
    => /\ last.outcome = "RequestError"
       /\ last.error = <<[status |-> LastResponse.status,
                          reason |-> LastResponse.reason,
                          body |-> LastResponse.body]>>
       /\ call = <<>>

\* C17's case: a Post answered 200 has failed, the error carrying the
\* transport's reason phrase.
C17_Witness ==
  /\ last.op = "Post"
  /\ LastResponse.status = 200
  /\ last.outcome = "RequestError"
  /\ last.error[1].status = 200
  /\ last.error[1].reason = "OK"
  /\ call = <<>>

\* The type GetEntry and GetFeed want of what Get returns.
Wanted(op) == IF op = "GetEntry" THEN "Entry" ELSE "Feed"

\* C18: GetEntry returns what Get returned exactly when that is an entry,
\* GetFeed exactly when it is a feed; for the other of the two and for the
\* raw body they raise UnexpectedReturnType; a RequestError of Get comes
\* to the caller with the payload Get gave it.
C18_TypedGet ==
  [][(last'.op \in {"GetEntry", "GetFeed"} /\ call' = <<>>) =>
       LET got == Get(Self, last'.uri, EmptyDict, Remaining(last'),
                      last'.responses[1])
       IN IF got.ends = "raise"
          THEN last'.outcome = "RequestError" /\ last'.error = got.error
          ELSE IF got.result.type = Wanted(last'.op)
          THEN last'.outcome = "return" /\ last'.result = got.result
          ELSE last'.outcome = "UnexpectedReturnType"]_vars

\* C18's case: GetEntry has raised UnexpectedReturnType for a response
\* that parses as a feed.
C18_Witness ==
  /\ last.op = "GetEntry"
  /\ LastResponse.status = 200
  /\ LastResponse.body = FeedXml
  /\ last.outcome = "UnexpectedReturnType"

\* The pieces of a string between its slashes.
RECURSIVE SplitSlash(_, _)
SplitSlash(s, piece) ==
  IF s = <<>> THEN <<piece>>
  ELSE IF Head(s) = "/" THEN <<piece>> \o SplitSlash(Tail(s), <<>>)
  ELSE SplitSlash(Tail(s), Append(piece, Head(s)))

\* What a percent-encoded string stands for: + is a space, %XX is the
\* character with that code.
RECURSIVE Unquote(_)
Unquote(s) ==
  IF s = <<>> THEN <<>>
  ELSE IF Head(s) = "+" THEN <<" ">> \o Unquote(Tail(s))
  ELSE IF Head(s) = "%" /\ Len(s) >= 3
  THEN <<CHOOSE c \in DOMAIN PercentCode : PercentCode[c] = SubSeq(s, 1, 3)>>
         \o Unquote(SubSeq(s, 4, Len(s)))
  ELSE <<Head(s)>> \o Unquote(Tail(s))

\* The characters an encoded category is made of.
EncodedChars == AlwaysSafe \cup {"%", "+"}

\* C19: ToUri gives as path the feed alone when there are no categories,
\* and the feed, /-/ and the categories, each encoded on its own and joined
\* with / in the order of the list, when there are some; the call leaves
\* the items, the categories and the feed as they were, and a second call
\* gives the same URI.
C19_ToUriPath ==
  [][answer'.op = "ToUri" =>
       LET feed == IF query.feed = None THEN <<>> ELSE query.feed
           path == answer'.uri.path
           rest == SubSeq(path, Len(feed) + 4, Len(path))
           pieces == SplitSlash(rest, <<>>)
       IN /\ query' = query
          /\ answer'.uri.params = query.params
          /\ ToUri(query').uri = answer'.uri
          /\ IF query.categories = <<>> THEN path = feed
             ELSE /\ startswith(path, feed \o <<"/", "-", "/">>)
                  /\ Len(pieces) = Len(query.categories)
                  /\ \A i \in DOMAIN pieces :
                       /\ Chars(pieces[i]) \subseteq EncodedChars
                       /\ Unquote(pieces[i]) = query.categories[i]]_vars

\* C19's case: feed /feeds/x with the categories A and B|C has given the
\* path /feeds/x/-/A/B%7CC.
C19_Witness ==
  /\ answer.op = "ToUri"
  /\ query.feed = FeedX
  /\ query.categories = <<CatPlain, CatOr>>
  /\ answer.uri.path =
       FeedX \o <<"/", "-", "/", "A", "/", "B", "%", "7", "C", "C">>

\* The well-known key of each accessor.
WellKnownKey ==
  [name \in Accessors |->
     CASE name = "text_query" -> "q"
       [] name = "author" -> "author"
       [] name = "alt" -> "alt"
       [] name = "updated_min" -> "updated-min"
       [] name = "updated_max" -> "updated-max"
       [] name = "published_min" -> "published-min"
       [] name = "published_max" -> "published-max"
       [] name = "start_index" -> "start-index"
       [] name = "max_results" -> "max-results"]

\* C20: each accessor reads and writes its own well-known key.  A read
\* gives the value of that key, absent when the key was never set, and
\* changes nothing; a write leaves that key with the value written, so that
\* the read after it gives the value, and leaves every other key, the feed
\* and the categories as they were.
C20_AccessorsOwnKey ==
  [][/\ answer'.op = "get" =>
          LET key == WellKnownKey[answer'.name]
          IN /\ answer'.value = IF key \in DOMAIN query.params
                                THEN query.params[key] ELSE None
             /\ query' = query
     /\ answer'.op = "set" =>
          LET key == WellKnownKey[answer'.name]
          IN /\ DOMAIN query'.params = (DOMAIN query.params) \cup {key}
             /\ query'.params[key] = answer'.value
             /\ Getter(answer'.name, query') = answer'.value
             /\ \A k \in (DOMAIN query.params) \ {key} :
                  query'.params[k] = query.params[k]
             /\ query'.feed = query.feed
             /\ query'.categories = query.categories]_vars

\* C20's case: max_results was read back as the 5 assigned to it, from a
\* Query that holds an author given to the constructor and no other key.
C20_Witness ==
  /\ answer.op = "get"
  /\ answer.name = "max_results"
  /\ answer.value = V5
  /\ DOMAIN query.params = {"max-results", "author"}
  /\ query.params["author"] = V7

\* C21: a 302 with budget left whose Location has a gsessionid parameter
\* leaves as session id the whole value of that parameter, up to the next
\* & or the end of the URI, whatever value the server sends; a Location
\* without the parameter leaves the session id as it was.
C21_WholeSessionValue ==
  [][(/\ last'.op \in CrudOps
      /\ last'.responses[1].status = 302
      /\ last'.responses[1].location /= None
      /\ Remaining(last') > 0)
       => IF HasSessionParameter(last'.responses[1].location)
          THEN {gsessionid'} = SessionValues(last'.responses[1].location)
          ELSE gsessionid' = gsessionid]_vars

\* C22: a 302 received with redirects_remaining > 0 and without a Location
\* header makes the call fail with RequestError; no request follows and
\* the session id stays as it was.
C22_RedirectWithoutLocation ==
  [][(/\ last'.op \in CrudOps
      /\ last'.responses[1].status = 302
      /\ last'.responses[1].location = None
      /\ Remaining(last') > 0)
       => /\ last'.outcome = "RequestError"
          /\ Len(last'.error) = 1
          /\ last'.error[1].status = 302
          /\ call' = <<>>
          /\ gsessionid' = gsessionid]_vars

\* C22's case: the second request of a call, made for a redirect that
\* gave the session id AB, was answered 302 without a Location while
\* budget was left; the call has failed and AB is still stored.
C22_Witness ==
  /\ last.op \in CrudOps
  /\ last.sent = 2
  /\ Remaining(last) > 0
  /\ LastResponse.status = 302
  /\ LastResponse.location = None
  /\ last.outcome = "RequestError"
  /\ call = <<>>
  /\ gsessionid = <<"A", "B">>

\* The last request carries an Authorization header whose type part is
\* absent and whose token part is a token.
HeaderTypeAbsent ==
  /\ last.op \in CrudOps
  /\ "Authorization" \in DOMAIN LastRequest.headers
  /\ startswith(LastRequest.headers["Authorization"], Str(None) \o <<"=">>)
  /\ LastRequest.headers["Authorization"] /= AuthorizationValue(None, None)

\* C23: with two threads on one instance, a CRUD request goes out with an
\* Authorization header built from a half-updated credential (type absent,
\* token present); this happens only to a call during which the other
\* thread was inside an operation on the credentials, so never when the
\* calls run one after the other.
C23_TornHeaderOnlyInterleaved ==
  (threads.reader.pc = "idle" /\ HeaderTypeAbsent)
    => threads.reader.interleaved

\* C23's case: a Get that ran while RevokeAuthSubToken was between its two
\* assignments has sent a header with the type absent and the token x.
C23_Witness ==
  /\ threads.reader.pc = "idle"
  /\ threads.reader.interleaved
  /\ threads.writer.op = "RevokeAuthSubToken"
  /\ last.op = "Get"
  /\ "Authorization" \in DOMAIN LastRequest.headers
  /\ LastRequest.headers["Authorization"] = AuthorizationValue(None, TokenX)

(***************************************************************************)
(* C24.  In every execution in which the operations run one after the      *)
(* other, a token that is present and not empty has one of the two labels  *)
(* as its type, and no request of a CRUD call, of UpgradeToSessionToken or *)
(* of RevokeAuthSubToken carries an Authorization header whose type part   *)
(* is absent.                                                              *)
(***************************************************************************)
AuthLabels == {PROGRAMMATIC_AUTH_LABEL, AUTHSUB_AUTH_LABEL}

SentTypeAbsent ==
  /\ last.requests /= <<>>
  /\ "Authorization" \in DOMAIN LastRequest.headers
  /\ startswith(LastRequest.headers["Authorization"], Str(None) \o <<"=">>)

C24_TokenHasType ==
  /\ Truthy(auth_token) => auth_type \in AuthLabels
  /\ ~SentTypeAbsent

\* A CRUD call sent the token of a login under the login's label.
C24_Witness ==
  /\ last.op \in CrudOps
  /\ Truthy(auth_token)
  /\ auth_type = PROGRAMMATIC_AUTH_LABEL
  /\ "Authorization" \in DOMAIN LastRequest.headers
  /\ LastRequest.headers["Authorization"]
       = AuthorizationValue(PROGRAMMATIC_AUTH_LABEL, auth_token)

(***************************************************************************)
(* C25.  The token and its type change only through the setter, a          *)
(* ProgrammaticLogin answered 200 with an Auth= line, an                   *)
(* UpgradeToSessionToken answered 200 with a Token= line, and a            *)
(* RevokeAuthSubToken answered 200.  Every login that fails or is answered *)
(* with another status, every NonAuthSubToken failure and every CRUD call  *)
(* leaves both as they were.                                               *)
(***************************************************************************)
\* The response has a line that starts with the prefix.
HasLine(response, prefix) ==
  \E i \in DOMAIN splitlines(response.body) :
    startswith(splitlines(response.body)[i], prefix)

\* The operations that may change the credential, as l records one.
ChangesCredential(l) ==
  \/ l.op = "auth_token"
  \/ /\ l.op = "ProgrammaticLogin"
     /\ l.responses[1].status = 200
     /\ HasLine(l.responses[1], AuthPrefix)
  \/ /\ l.op = "UpgradeToSessionToken"
     /\ l.outcome = "return"
     /\ l.responses[1].status = 200
     /\ HasLine(l.responses[1], TokenPrefix)
  \/ /\ l.op = "RevokeAuthSubToken"
     /\ l.outcome = "return"
     /\ l.responses[1].status = 200

\* The operations the claim lists as leaving the credential alone.
KeepsCredential(l) ==
  \/ l.op \in CrudOps
  \/ l.outcome = "NonAuthSubToken"
  \/ /\ l.op = "ProgrammaticLogin"
     /\ \/ l.responses[1].status /= 200
        \/ l.outcome \in {"CaptchaRequired", "BadAuthentication", "Error"}

C25_CredentialFrame ==
  [][/\ <<auth_token, auth_type>>' /= <<auth_token, auth_type>>
          => ChangesCredential(last')
     /\ KeepsCredential(last')
          => <<auth_token, auth_type>>' = <<auth_token, auth_type>>]_vars

\* A login refused with BadAuthentication came after the token x was set:
\* the token and its AuthSub label are still stored.
C25_Witness ==
  /\ LoginAnswered(403)
  /\ last.outcome = "BadAuthentication"
  /\ auth_token = TokenX
  /\ auth_type = AUTHSUB_AUTH_LABEL

(***************************************************************************)
(* C26.  The session id changes only in a CRUD activation answered 302     *)
(* with redirects remaining and a Location that carries the parameter      *)
(* gsessionid; once it is set no operation makes it absent again; and the  *)
(* activation that ends a call in RequestError leaves it as the redirects  *)
(* before it in the chain left it.                                         *)
(***************************************************************************)
LearnsSessionId(l) ==
  /\ l.op \in CrudOps
  /\ l.responses[1].status = 302
  /\ Remaining(l) > 0
  /\ l.responses[1].location /= None
  /\ HasSessionParameter(l.responses[1].location)

C26_SessionIdFrame ==
  [][/\ gsessionid' /= gsessionid => LearnsSessionId(last')
     /\ gsessionid /= None => gsessionid' /= None
     /\ (last'.op \in CrudOps /\ last'.outcome = "RequestError")
          => gsessionid' = gsessionid]_vars

\* The second request of a call went to the Location that gave the session
\* id AB, and was answered with a status that ended the call in
\* RequestError: AB is still stored.
C26_Witness ==
  /\ last.op \in CrudOps
  /\ last.sent = 2
  /\ last.uri = LocationSession
  /\ last.outcome = "RequestError"
  /\ LastResponse.status = 404
  /\ call = <<>>
  /\ gsessionid = <<"A", "B">>

(***************************************************************************)
(* C27.  A CRUD call leaves the mapping the caller gave as extra_headers   *)
(* as it was, so a call made with the same mapping after a revoke answered *)
(* 200 sends no Authorization header.                                      *)
(***************************************************************************)
C27_CallerHeadersKept ==
  [][last'.op \in CrudOps
       => /\ caller_headers' = caller_headers
          /\ (last.op = "RevokeAuthSubToken" /\ last.outcome = "return"
                /\ last.responses[1].status = 200)
               => "Authorization" \notin DOMAIN last'.requests[1].headers]_vars

=============================================================================
